---- MODULE Spec2Model ----
(***************************************************************************)
(* Model of controllers/ai_appointment_controller.py: the three JSON       *)
(* webhooks check_availability, book_appointment and cancel_appointment    *)
(* of AiAppointmentController, over a store of calendar.event and          *)
(* res.partner records.                                                    *)
(*                                                                         *)
(* Time is counted in minutes.  An instant is the number of minutes since  *)
(* 00:00 UTC of day 0; day d is a Monday when d % 7 = 0.  A timezone is a  *)
(* fixed offset in minutes.  An ISO-8601 string with offset is the record  *)
(* [kind |-> "iso", wall |-> local minutes, off |-> offset].               *)
(***************************************************************************)
EXTENDS Integers, Sequences, FiniteSets, TLC

VARIABLES
    events,         \* calendar.event records: [id, user_id, start, stop]
    partners,       \* res.partner records: [id, email, phone]
    nextEventId,    \* next id the store gives to a calendar.event
    nextPartnerId,  \* next id the store gives to a res.partner
    book,           \* book[p]: the book_appointment request handled by p
    cancelled,      \* response of the last cancel_appointment request; in
                    \* CancelSpec, the state of each concurrent cancel request
    chk             \* the check_availability request in progress

vars == <<events, partners, nextEventId, nextPartnerId, book, cancelled, chk>>

----------------------------------------------------------------------------
(* Bounds of the model *)

NBook == 2          \* number of book_appointment requests (run concurrently)
MaxSlots == 26      \* cap on the length of the slot list kept for a check
MaxBusy == 2        \* most events in the store a check starts from
MaxIntervals == 3   \* most events in the store of the interval calculations
NCancel == 2        \* number of cancel_appointment requests run concurrently

Procs == 1..NBook

----------------------------------------------------------------------------
(* Program constants and the world outside the controller *)

STATIC_ASSIGNEE_USER_ID == 2

DayLen == 24 * 60   \* minutes in a day
Monday == 7         \* the date "2025-11-17" of the docstrings, a Monday
Tuesday == Monday + 1

Max(a, b) == IF a >= b THEN a ELSE b
Min(a, b) == IF a <= b THEN a ELSE b

\* pytz.timezone(name): offset of a known zone; unknown names raise
KnownZones == {"UTC", "America/New_York", "Asia/Tokyo"}
ZoneOffset(name) ==
    CASE name = "UTC" -> 0
      [] name = "America/New_York" -> -300
      [] name = "Asia/Tokyo" -> 540
      [] OTHER -> 0

\* tz.localize(datetime(...)).astimezone(pytz.UTC)
LocalToUtc(wall, off) == wall - off
\* dt.astimezone(tz).isoformat()
UtcToIso(t, off) == [kind |-> "iso", wall |-> t + off, off |-> off]
\* datetime.fromisoformat(s).astimezone(pytz.UTC)
IsoToUtc(iso) == iso.wall - iso.off

NoIso == [kind |-> "none", wall |-> 0, off |-> 0]
BadIso == [kind |-> "bad", wall |-> 0, off |-> 0]
Iso(day, minute, off) == [kind |-> "iso", wall |-> day * DayLen + minute, off |-> off]

\* appointment.type records; slot_ids in the order the store returns them,
\* hours as minutes of the day (13.5 hours = 810)
NoType == 0
AppointmentTypes == {11, 12}
TypeName(t) == IF t = 11 THEN "Dr Drizzle" ELSE "Dr Frost"
StaffUserIds(t) == IF t = 11 THEN {9, 7} ELSE {}
AppointmentTz(t) == IF t = 11 THEN "America/New_York" ELSE ""
SlotIds(t) ==
    IF t = 11
    THEN << [weekday |-> 1, start_hour |-> 780, end_hour |-> 840],
            [weekday |-> 1, start_hour |-> 840, end_hour |-> 900],
            [weekday |-> 3, start_hour |-> 540, end_hour |-> 600] >>
    ELSE << [weekday |-> 1, start_hour |-> 900, end_hour |-> 960],
            [weekday |-> 1, start_hour |-> 540, end_hour |-> 600],
            [weekday |-> 1, start_hour |-> 1440, end_hour |-> 1500] >>

\* res.users: search by email
UserByEmail(email) == IF email = "doc7@clinic" THEN 7 ELSE 0

----------------------------------------------------------------------------
(* Helpers of the controller *)

\* _get_window_hours: minutes of the day of the working window
WindowHours(time_window) ==
    CASE time_window = "morning" -> <<540, 720>>
      [] time_window = "afternoon" -> <<780, 1020>>
      [] time_window = "evening" -> <<1020, 1200>>
      [] OTHER -> <<0, 1439>>

\* _get_appointment_type_obj: by id when it exists, else by name
GetAppointmentTypeObj(appointment_type_id, appointment_type_name) ==
    IF appointment_type_id # 0 /\ appointment_type_id \in AppointmentTypes
    THEN appointment_type_id
    ELSE IF appointment_type_name # ""
              /\ \E t \in AppointmentTypes : TypeName(t) = appointment_type_name
         THEN CHOOSE t \in AppointmentTypes : TypeName(t) = appointment_type_name
         ELSE NoType

\* _resolve_user_from_appointment: the staff user with the least id, or 0
ResolveUserFromAppointment(appointment_type_id, appointment_type_name) ==
    LET t == GetAppointmentTypeObj(appointment_type_id, appointment_type_name)
    IN IF t = NoType \/ StaffUserIds(t) = {}
       THEN 0
       ELSE CHOOSE u \in StaffUserIds(t) : \A v \in StaffUserIds(t) : u <= v

\* the timezone _get_configured_slots_from_appointment localizes in
ConfiguredTzOffset(t, timezone_str) ==
    LET tz_name == IF AppointmentTz(t) # "" THEN AppointmentTz(t)
                   ELSE IF timezone_str # "" THEN timezone_str ELSE "UTC"
    IN IF tz_name \in KnownZones THEN ZoneOffset(tz_name) ELSE 0

\* one slot template is kept when its weekday is the date's and its hours
\* make a datetime (hour 0..23)
SlotApplies(slot, day) ==
    /\ slot.weekday = (day % 7) + 1
    /\ slot.start_hour \div 60 <= 23
    /\ slot.end_hour \div 60 <= 23

\* datetime(year, month, day, int(h), int((h - int(h)) * 60)) localized in
\* the zone and converted to UTC
SlotDatetimeUtc(day, hours, off) ==
    LocalToUtc(day * DayLen + ((hours \div 60) * 60) + (hours % 60), off)

\* _get_configured_slots_from_appointment: <<start, end>> in UTC, in the
\* order of slot_ids.  date is [ok, day]: the parsed date_pref.  Slot hours
\* are whole minutes, so int((h - int(h)) * 60) is the minute itself.
RECURSIVE ConfiguredFrom(_, _, _, _)
ConfiguredFrom(slots, i, day, off) ==
    IF i > Len(slots) THEN << >>
    ELSE LET slot == slots[i]
             rest == ConfiguredFrom(slots, i + 1, day, off)
         IN IF SlotApplies(slot, day)
            THEN << << SlotDatetimeUtc(day, slot.start_hour, off),
                       SlotDatetimeUtc(day, slot.end_hour, off) >> >> \o rest
            ELSE rest

GetConfiguredSlotsFromAppointment(t, date, timezone_str) ==
    IF t = NoType \/ ~date.ok
    THEN << >>
    ELSE ConfiguredFrom(SlotIds(t), 1, date.day, ConfiguredTzOffset(t, timezone_str))

\* half-open intervals [s1,e1) and [s2,e2) overlap
Overlaps(s1, e1, s2, e2) == s1 < e2 /\ e1 > s2

----------------------------------------------------------------------------
(* POST /ai/appointments/book *)

NoResp == [status |-> "none", message |-> "", appointment_id |-> 0, partner_id |-> 0]
ErrorResp(msg) == [status |-> "error", message |-> msg, appointment_id |-> 0, partner_id |-> 0]

MsgRequired == "slot_start and slot_end are required."
MsgBadDatetime == "Invalid datetime format"
MsgInvalidSlot == "Invalid time slot. Please choose a valid configured slot."
MsgConflict == "The requested time slot is already booked."
MsgCreateFailed == "Failed to create calendar event"

Req(tid, tname, cal, s, e, email, phone) ==
    [appointment_type_id |-> tid, appointment_type_name |-> tname,
     calendar_user_email |-> cal, slot_start |-> s, slot_end |-> e,
     caller_email |-> email, caller_phone |-> phone]

NY == ZoneOffset("America/New_York")

\* the bodies of the book requests the model sends
BookRequests ==
    { Req(11, "", "", Iso(Monday, 780, NY), Iso(Monday, 840, NY), "a@x", ""),
      Req(11, "", "", Iso(Monday, 1080, 0), Iso(Monday, 1140, 0), "", "555"),
      Req(11, "", "", Iso(Monday, 780, NY), Iso(Monday, 810, NY), "a@x", ""),
      Req(11, "", "", Iso(Monday, 810, NY), Iso(Monday, 840, NY), "a@x", ""),
      Req(11, "", "", Iso(Monday, 780, NY), Iso(Monday, 900, NY), "a@x", ""),
      Req(12, "", "nobody@clinic", Iso(Monday, 540, 0), Iso(Monday, 600, 0), "", ""),
      Req(11, "", "", Iso(Tuesday, 780, NY), Iso(Tuesday, 840, NY), "a@x", ""),
      Req(99, "Dr Drizzle", "", Iso(Monday, 840, NY), Iso(Monday, 900, NY), "", ""),
      Req(0, "", "doc7@clinic", Iso(Monday, 810, NY), Iso(Monday, 870, NY), "a@x", ""),
      Req(0, "", "doc7@clinic", Iso(Monday, 840, NY), Iso(Monday, 780, NY), "a@x", ""),
      Req(0, "", "doc7@clinic", Iso(Monday, 840, NY), Iso(Monday, 840, NY), "a@x", ""),
      Req(0, "", "", Iso(Monday, 1080, 0), Iso(Monday, 1140, 0), "a@x", ""),
      Req(0, "", "", Iso(Monday, 780, NY), NoIso, "", ""),
      Req(0, "", "", BadIso, Iso(Monday, 840, NY), "", "") }

IdleBook ==
    [pc |-> "idle", req |-> Req(0, "", "", NoIso, NoIso, "", ""),
     user_id |-> 0, appt |-> NoType, start |-> 0, stop |-> 0,
     partner_id |-> 0, new_partner |-> 0, new_event |-> 0,
     busy_seen |-> FALSE, adj_seen |-> FALSE, raced |-> {}, resp |-> NoResp]

\* Partner.search by email, then by phone (lines 515-518): the matches
FoundPartners(ps, email, phone) ==
    LET byEmail == IF email # "" THEN {x \in ps : x.email = email} ELSE {}
    IN IF byEmail # {} THEN byEmail
       ELSE IF phone # "" THEN {x \in ps : x.phone = phone} ELSE {}

\* the owner of the calendar (lines 528-555)
BookUserIdNoFallback(req) ==
    LET byEmail == IF req.calendar_user_email # ""
                   THEN UserByEmail(req.calendar_user_email) ELSE 0
        byType == IF req.appointment_type_id # 0 \/ req.appointment_type_name # ""
                  THEN ResolveUserFromAppointment(req.appointment_type_id,
                                                  req.appointment_type_name)
                  ELSE 0
    IN IF byEmail # 0 THEN byEmail ELSE byType

BookUserId(req) ==
    LET byEmail == IF req.calendar_user_email # ""
                   THEN UserByEmail(req.calendar_user_email) ELSE 0
        byType == IF req.appointment_type_id # 0 \/ req.appointment_type_name # ""
                  THEN ResolveUserFromAppointment(req.appointment_type_id,
                                                  req.appointment_type_name)
                  ELSE 0
    IN IF byEmail # 0 THEN byEmail
       ELSE IF byType # 0 THEN byType
       ELSE STATIC_ASSIGNEE_USER_ID

\* the appointment type of the request (lines 539-551)
BookAppointmentType(req) ==
    IF req.appointment_type_id # 0 \/ req.appointment_type_name # ""
    THEN GetAppointmentTypeObj(req.appointment_type_id, req.appointment_type_name)
    ELSE NoType

\* is the requested slot one of the configured slots (lines 611-616)
IsValidSlotStartOnly(valid_slots, req_start, req_end) ==
    \E i \in 1..Len(valid_slots) : valid_slots[i][1] = req_start

IsValidSlot(valid_slots, req_start, req_end) ==
    \E i \in 1..Len(valid_slots) :
        valid_slots[i][1] = req_start /\ valid_slots[i][2] = req_end

\* the configured slots the request is validated against (lines 596-605):
\* those of the date written in slot_start, in the appointment's zone or UTC
BookValidSlots(t, start_iso) ==
    GetConfiguredSlotsFromAppointment(
        t, [ok |-> TRUE, day |-> start_iso.wall \div DayLen],
        IF AppointmentTz(t) # "" THEN AppointmentTz(t) ELSE "UTC")

\* Event.search_count of the conflict domain (lines 657-665)
ConflictCountClosed(evs, user_id, start, stop) ==
    Cardinality({e \in evs : e.user_id = user_id /\ e.start <= stop /\ e.stop >= start})

ConflictCountAnyUser(evs, user_id, start, stop) ==
    Cardinality({e \in evs : e.start < stop /\ e.stop > start})

ConflictCountStartInside(evs, user_id, start, stop) ==
    Cardinality({e \in evs : e.user_id = user_id /\ e.start >= start /\ e.start < stop})

ConflictCount(evs, user_id, start, stop) ==
    Cardinality({e \in evs : e.user_id = user_id /\ e.start < stop /\ e.stop > start})

\* history kept for the properties: busy_seen, did the store hold an event
\* of the user overlapping the slot when the request searched it; adj_seen,
\* did it hold an event of the user ending where the slot starts or
\* starting where the slot ends; raced,
\* the requests that had searched and not yet created at that moment;
\* new_partner and new_event, the records the request created.
BusyFor(evs, user_id, start, stop) ==
    \E e \in evs : e.user_id = user_id /\ Overlaps(start, stop, e.start, e.stop)

AdjacentFor(evs, user_id, start, stop) ==
    \E e \in evs : /\ e.user_id = user_id /\ e.start < e.stop
                    /\ (e.stop = start \/ e.start = stop)

\* lines 490-670: everything up to and including the conflict search.
\* Request p is the p-th book request to arrive.
BookCheck(p, req) ==
    /\ book[p].pc = "idle"
    /\ \A q \in Procs : q < p => book[q].pc # "idle"
    /\ LET missing == req.slot_start.kind = "none" \/ req.slot_end.kind = "none"
           found == FoundPartners(partners, req.caller_email, req.caller_phone)
           bad == req.slot_start.kind = "bad" \/ req.slot_end.kind = "bad"
           user_id == BookUserId(req)
           t == BookAppointmentType(req)
           start == IsoToUtc(req.slot_start)
           stop == IsoToUtc(req.slot_end)
           invalid == t # NoType
                      /\ ~IsValidSlot(BookValidSlots(t, req.slot_start), start, stop)
           conflict == ConflictCount(events, user_id, start, stop) > 0
       IN IF missing
          THEN /\ book' = [book EXCEPT ![p] =
                      [@ EXCEPT !.pc = "done", !.req = req,
                                !.resp = ErrorResp(MsgRequired)]]
               /\ UNCHANGED <<partners, nextPartnerId>>
          ELSE \E pid \in (IF found # {} THEN {x.id : x \in found} ELSE {nextPartnerId}) :
               /\ partners' = IF found # {} THEN partners
                              ELSE partners \cup {[id |-> nextPartnerId,
                                                   email |-> req.caller_email,
                                                   phone |-> req.caller_phone]}
               /\ nextPartnerId' = IF found # {} THEN nextPartnerId ELSE nextPartnerId + 1
               /\ book' = [book EXCEPT ![p] =
                      [@ EXCEPT !.req = req,
                                !.busy_seen = ~bad /\ BusyFor(events, user_id, start, stop),
                                !.adj_seen = ~bad /\ AdjacentFor(events, user_id, start, stop),
                                !.raced = {q \in Procs : book[q].pc = "create"},
                                !.partner_id = pid,
                                !.new_partner = IF found # {} THEN 0 ELSE pid,
                                !.user_id = user_id, !.appt = t,
                                !.start = IF bad THEN 0 ELSE start,
                                !.stop = IF bad THEN 0 ELSE stop,
                                !.pc = IF bad \/ invalid \/ conflict THEN "done" ELSE "create",
                                !.resp = IF bad THEN ErrorResp(MsgBadDatetime)
                                         ELSE IF invalid THEN ErrorResp(MsgInvalidSlot)
                                         ELSE IF conflict THEN ErrorResp(MsgConflict)
                                         ELSE NoResp]]
    /\ UNCHANGED <<events, nextEventId, cancelled, chk>>

\* lines 672-705: Event.create succeeds and the request is confirmed.
\* calendar.event is the model of the calendar module the addon depends on
\* (__manifest__.py line 10): its create raises when stop is earlier than
\* start, and stores an event whose stop equals its start.
BookCreate(p) ==
    /\ book[p].pc = "create"
    /\ book[p].start <= book[p].stop
    /\ events' = events \cup {[id |-> nextEventId, user_id |-> book[p].user_id,
                               start |-> book[p].start, stop |-> book[p].stop,
                               appointment_type_id |-> book[p].appt]}
    /\ nextEventId' = nextEventId + 1
    /\ book' = [book EXCEPT ![p] =
           [@ EXCEPT !.pc = "done", !.new_event = nextEventId,
                     !.resp = [status |-> "confirmed", message |-> "",
                               appointment_id |-> nextEventId,
                               partner_id |-> book[p].partner_id]]]
    /\ UNCHANGED <<partners, nextPartnerId, cancelled, chk>>

\* lines 672-678: Event.create raises and the request returns the error
BookCreateFails(p) ==
    /\ book[p].pc = "create"
    /\ book' = [book EXCEPT ![p] =
           [@ EXCEPT !.pc = "done", !.resp = ErrorResp(MsgCreateFailed)]]
    /\ UNCHANGED <<events, partners, nextEventId, nextPartnerId, cancelled, chk>>

----------------------------------------------------------------------------
(* POST /ai/appointments/cancel *)

MsgIdRequired == "appointment_id is required."
MsgIdNotInt == "appointment_id must be a valid integer."
MsgNotFound == "Appointment not found."

NoCancel == [status |-> "none", message |-> "", appointment_id |-> 0]

\* the appointment_id values the model sends: absent, not a number, a number
CancelIds == {[kind |-> "none", val |-> 0], [kind |-> "bad", val |-> 0]}
             \cup {[kind |-> "int", val |-> i] : i \in 1..NBook}

\* lines 717-792
CancelAppointmentKeepsEvent(appointment_id) ==
    /\ cancelled' =
           IF appointment_id.kind = "none" \/ appointment_id.val = 0
           THEN [status |-> "error", message |-> MsgIdRequired, appointment_id |-> 0]
           ELSE IF appointment_id.kind = "bad"
           THEN [status |-> "error", message |-> MsgIdNotInt, appointment_id |-> 0]
           ELSE IF ~\E e \in events : e.id = appointment_id.val
           THEN [status |-> "error", message |-> MsgNotFound,
                 appointment_id |-> appointment_id.val]
           ELSE [status |-> "cancelled", message |-> "",
                 appointment_id |-> appointment_id.val]
    /\ UNCHANGED <<events, partners, nextEventId, nextPartnerId, book, chk>>

CancelAppointment(appointment_id) ==
    /\ IF appointment_id.kind = "none" \/ appointment_id.val = 0
       THEN /\ cancelled' = [status |-> "error", message |-> MsgIdRequired,
                             appointment_id |-> 0]
            /\ UNCHANGED events
       ELSE IF appointment_id.kind = "bad"
       THEN /\ cancelled' = [status |-> "error", message |-> MsgIdNotInt,
                             appointment_id |-> 0]
            /\ UNCHANGED events
       ELSE IF ~\E e \in events : e.id = appointment_id.val
       THEN /\ cancelled' = [status |-> "error", message |-> MsgNotFound,
                             appointment_id |-> appointment_id.val]
            /\ UNCHANGED events
       ELSE /\ events' = {e \in events : e.id # appointment_id.val}
            /\ cancelled' = [status |-> "cancelled", message |-> "",
                             appointment_id |-> appointment_id.val]
    /\ UNCHANGED <<partners, nextEventId, nextPartnerId, book, chk>>

----------------------------------------------------------------------------
(* POST /ai/appointments/check *)

MsgDateRequired == "date_preference is required (YYYY-MM-DD)."
MsgDurationInt == "duration_minutes must be an integer."
MsgBadDate == "Invalid date_preference format. Expected YYYY-MM-DD."

CheckReq(date, tid, tname, window, tz, duration, cal) ==
    [date_preference |-> date, appointment_type_id |-> tid,
     appointment_type_name |-> tname, time_window |-> window, timezone |-> tz,
     duration_minutes |-> duration, calendar_user_email |-> cal]

Date(day) == [kind |-> "date", day |-> day]
NoDate == [kind |-> "none", day |-> 0]
BadDate == [kind |-> "bad", day |-> 0]
Minutes(n) == [kind |-> "int", val |-> n]
BadMinutes == [kind |-> "bad", val |-> 0]

IdleCheck ==
    [pc |-> "idle",
     req |-> CheckReq(NoDate, 0, "", "", "", BadMinutes, ""),
     mode |-> "", user_ids |-> {}, seen |-> {}, candidates |-> << >>,
     window |-> <<0, 0>>, busy |-> << >>, merged |-> << >>,
     off |-> 0, delta |-> 0, free |-> << >>, fi |-> 1, slot_start |-> 0,
     slots |-> << >>, status |-> "none", message |-> ""]

\* the calendar owner of a check request (lines 423-445)
CheckUserIds(req, t) ==
    LET byEmail == IF req.calendar_user_email # ""
                   THEN UserByEmail(req.calendar_user_email) ELSE 0
        byType == IF t # NoType
                  THEN ResolveUserFromAppointment(req.appointment_type_id,
                                                  req.appointment_type_name)
                  ELSE 0
    IN IF byEmail # 0 THEN {byEmail}
       ELSE IF byType # 0 THEN {byType}
       ELSE {STATIC_ASSIGNEE_USER_ID}

\* the appointment type of a check request (lines 415-421)
CheckAppointmentType(req) ==
    IF req.appointment_type_id # 0 \/ req.appointment_type_name # ""
    THEN GetAppointmentTypeObj(req.appointment_type_id, req.appointment_type_name)
    ELSE NoType

\* pytz.timezone(timezone_str or "UTC"), UTC when the name is unknown
CallerTzOffset(timezone_str) ==
    LET name == IF timezone_str # "" THEN timezone_str ELSE "UTC"
    IN IF name \in KnownZones THEN ZoneOffset(name) ELSE 0

\* min(s[0]) and max(s[1]) over the configured slots (lines 222-223)
RECURSIVE MinStart(_, _)
MinStart(ivs, i) ==
    IF i = Len(ivs) THEN ivs[i][1] ELSE Min(ivs[i][1], MinStart(ivs, i + 1))

RECURSIVE MaxEnd(_, _)
MaxEnd(ivs, i) ==
    IF i = Len(ivs) THEN ivs[i][2] ELSE Max(ivs[i][2], MaxEnd(ivs, i + 1))

\* the search window <<day_start_utc, day_end_utc>> (lines 217-240)
SearchWindowKeywordOnly(configured, day, time_window, off) ==
    << LocalToUtc(day * DayLen + WindowHours(time_window)[1], off),
       LocalToUtc(day * DayLen + WindowHours(time_window)[2], off) >>

SearchWindow(configured, day, time_window, off) ==
    IF configured # << >>
    THEN << MinStart(configured, 1), MaxEnd(configured, 1) >>
    ELSE << LocalToUtc(day * DayLen + WindowHours(time_window)[1], off),
            LocalToUtc(day * DayLen + WindowHours(time_window)[2], off) >>

\* CalendarEvent.search(domain) (lines 242-250)
BusyEvents(evs, user_ids, day_start_utc, day_end_utc) ==
    {e \in evs : e.start < day_end_utc /\ e.stop > day_start_utc
                 /\ e.user_id \in user_ids}

\* busy_intervals sorted by start (lines 254-261); events of equal start stay
\* in the order of the search, taken here to be the order of their ids
RECURSIVE SortedBusy(_)
SortedBusy(evs) ==
    IF evs = {} THEN << >>
    ELSE LET first == CHOOSE e \in evs :
                 \A f \in evs : e.start < f.start
                                \/ (e.start = f.start /\ e.id <= f.id)
         IN << <<first.start, first.stop>> >> \o SortedBusy(evs \ {first})

\* merge of the sorted busy intervals (lines 263-273)
RECURSIVE MergeFromStrict(_, _, _)
MergeFromStrict(busy, i, merged) ==
    IF i > Len(busy) THEN merged
    ELSE IF merged = << >> THEN MergeFromStrict(busy, i + 1, << busy[i] >>)
    ELSE LET last == merged[Len(merged)]
         IN IF busy[i][1] < last[2]
            THEN MergeFromStrict(busy, i + 1,
                     [merged EXCEPT ![Len(merged)] = <<last[1], Max(last[2], busy[i][2])>>])
            ELSE MergeFromStrict(busy, i + 1, Append(merged, busy[i]))

RECURSIVE MergeFrom(_, _, _)
MergeFrom(busy, i, merged) ==
    IF i > Len(busy) THEN merged
    ELSE IF merged = << >> THEN MergeFrom(busy, i + 1, << busy[i] >>)
    ELSE LET last == merged[Len(merged)]
         IN IF busy[i][1] <= last[2]
            THEN MergeFrom(busy, i + 1,
                     [merged EXCEPT ![Len(merged)] = <<last[1], Max(last[2], busy[i][2])>>])
            ELSE MergeFrom(busy, i + 1, Append(merged, busy[i]))

Merged(evs) == MergeFrom(SortedBusy(evs), 1, << >>)

\* is a configured slot free of every merged busy interval (lines 282-287)
SlotIsFreeClosed(slot_start_utc, slot_end_utc, merged) ==
    ~\E j \in 1..Len(merged) :
        slot_start_utc <= merged[j][2] /\ slot_end_utc >= merged[j][1]

SlotIsFree(slot_start_utc, slot_end_utc, merged) ==
    ~\E j \in 1..Len(merged) :
        slot_start_utc < merged[j][2] /\ slot_end_utc > merged[j][1]

\* one slot of the response, in the caller's zone
SlotOut(start_utc, end_utc, off) ==
    [start |-> UtcToIso(start_utc, off), end |-> UtcToIso(end_utc, off)]

\* the free configured slots, in their order (lines 278-296)
RECURSIVE TemplateSlots(_, _, _, _)
TemplateSlots(slot_intervals, i, merged, off) ==
    IF i > Len(slot_intervals) THEN << >>
    ELSE LET rest == TemplateSlots(slot_intervals, i + 1, merged, off)
         IN IF SlotIsFree(slot_intervals[i][1], slot_intervals[i][2], merged)
            THEN << SlotOut(slot_intervals[i][1], slot_intervals[i][2], off) >> \o rest
            ELSE rest

\* the free intervals of the window (lines 300-307)
RECURSIVE FreeFromNoGuard(_, _, _, _)
FreeFromNoGuard(merged, i, current_start, day_end_utc) ==
    IF i > Len(merged)
    THEN IF current_start < day_end_utc
         THEN << <<current_start, day_end_utc>> >> ELSE << >>
    ELSE << <<current_start, merged[i][1]>> >>
         \o FreeFromNoGuard(merged, i + 1, Max(current_start, merged[i][2]), day_end_utc)

RECURSIVE FreeFrom(_, _, _, _)
FreeFrom(merged, i, current_start, day_end_utc) ==
    IF i > Len(merged)
    THEN IF current_start < day_end_utc
         THEN << <<current_start, day_end_utc>> >> ELSE << >>
    ELSE LET rest == FreeFrom(merged, i + 1, Max(current_start, merged[i][2]), day_end_utc)
         IN IF merged[i][1] > current_start
            THEN << <<current_start, merged[i][1]>> >> \o rest
            ELSE rest

FreeIntervals(merged, day_start_utc, day_end_utc) ==
    FreeFrom(merged, 1, day_start_utc, day_end_utc)

\* check_availability up to the slot-splitting loop (lines 391-455 with
\* _compute_free_slots lines 194-310); the configured slots are checked here
CheckBegin(req) ==
    /\ chk.pc = "idle"
    /\ LET t == CheckAppointmentType(req)
           user_ids == CheckUserIds(req, t)
           off == CallerTzOffset(req.timezone)
           date == [ok |-> req.date_preference.kind = "date",
                    day |-> req.date_preference.day]
           configured == IF t # NoType
                         THEN GetConfiguredSlotsFromAppointment(t, date, req.timezone)
                         ELSE << >>
           window == SearchWindow(configured, date.day, req.time_window, off)
           busy == BusyEvents(events, user_ids, window[1], window[2])
           merged == Merged(busy)
           free == FreeIntervals(merged, window[1], window[2])
           started == [chk EXCEPT !.req = req, !.user_ids = user_ids,
                                  !.seen = events, !.off = off]
           searched == [started EXCEPT !.window = window,
                                       !.busy = SortedBusy(busy),
                                       !.merged = merged]
       IN chk' =
            IF req.date_preference.kind = "none"
            THEN [chk EXCEPT !.pc = "done", !.req = req, !.status = "error",
                             !.message = MsgDateRequired]
            ELSE IF req.duration_minutes.kind = "bad"
            THEN [chk EXCEPT !.pc = "done", !.req = req, !.status = "error",
                             !.message = MsgDurationInt]
            ELSE IF req.date_preference.kind = "bad"
            THEN [started EXCEPT !.pc = "done", !.status = "error",
                                 !.message = MsgBadDate]
            ELSE IF configured # << >>
            THEN [searched EXCEPT !.pc = "done", !.mode = "template",
                                 !.candidates = configured,
                                 !.slots = TemplateSlots(configured, 1, merged, off),
                                 !.status = "ok"]
            ELSE [searched EXCEPT !.pc = "loop", !.mode = "fixed",
                                 !.delta = req.duration_minutes.val,
                                 !.free = free, !.fi = 1,
                                 !.slot_start = IF free # << >> THEN free[1][1] ELSE 0]
    /\ UNCHANGED <<events, partners, nextEventId, nextPartnerId, book, cancelled>>

\* one iteration of `while slot_start + delta <= f_end` (lines 313-323)
CheckWhileBodyOverhang ==
    /\ chk.pc = "loop"
    /\ chk.fi <= Len(chk.free)
    /\ chk.slot_start < chk.free[chk.fi][2]
    /\ Len(chk.slots) < MaxSlots
    /\ chk' = [chk EXCEPT
           !.slots = Append(@, SlotOut(chk.slot_start, chk.slot_start + chk.delta, chk.off)),
           !.slot_start = @ + chk.delta]
    /\ UNCHANGED <<events, partners, nextEventId, nextPartnerId, book, cancelled>>

CheckWhileBody ==
    /\ chk.pc = "loop"
    /\ chk.fi <= Len(chk.free)
    /\ chk.slot_start + chk.delta <= chk.free[chk.fi][2]
    /\ Len(chk.slots) < MaxSlots
    /\ chk' = [chk EXCEPT
           !.slots = Append(@, SlotOut(chk.slot_start, chk.slot_start + chk.delta, chk.off)),
           !.slot_start = @ + chk.delta]
    /\ UNCHANGED <<events, partners, nextEventId, nextPartnerId, book, cancelled>>

\* the while condition is false: on to the next free interval (lines 311-313)
CheckWhileExit ==
    /\ chk.pc = "loop"
    /\ chk.fi <= Len(chk.free)
    /\ ~(chk.slot_start + chk.delta <= chk.free[chk.fi][2])
    /\ chk' = [chk EXCEPT
           !.fi = @ + 1,
           !.slot_start = IF chk.fi + 1 <= Len(chk.free)
                          THEN chk.free[chk.fi + 1][1] ELSE @]
    /\ UNCHANGED <<events, partners, nextEventId, nextPartnerId, book, cancelled>>

\* the free intervals are exhausted: return the slots (lines 325, 459-462)
CheckReturnHoldsSlot ==
    /\ chk.pc = "loop"
    /\ chk.fi > Len(chk.free)
    /\ chk' = [chk EXCEPT !.pc = "done", !.status = "ok"]
    /\ events' = events \cup
           {[id |-> nextEventId, user_id |-> u, start |-> chk.window[1],
             stop |-> chk.window[2], appointment_type_id |-> NoType] :
                u \in chk.user_ids}
    /\ nextEventId' = nextEventId + 1
    /\ UNCHANGED <<partners, nextPartnerId, book, cancelled>>

CheckReturn ==
    /\ chk.pc = "loop"
    /\ chk.fi > Len(chk.free)
    /\ chk' = [chk EXCEPT !.pc = "done", !.status = "ok"]
    /\ UNCHANGED <<events, partners, nextEventId, nextPartnerId, book, cancelled>>

----------------------------------------------------------------------------
(* The booking system: concurrent book requests and cancel requests *)

Init ==
    /\ events = {}
    /\ partners = {}
    /\ nextEventId = 1
    /\ nextPartnerId = 1
    /\ book = [p \in Procs |-> IdleBook]
    /\ cancelled = NoCancel
    /\ chk = IdleCheck

Next ==
    \/ \E p \in Procs : \E req \in BookRequests : BookCheck(p, req)
    \/ \E p \in Procs : BookCreate(p)
    \/ \E p \in Procs : BookCreateFails(p)
    \/ \E id \in CancelIds : CancelAppointment(id)

Spec == Init /\ [][Next]_vars

----------------------------------------------------------------------------
(* The availability engine: one check request against a store of bookings *)

Ev(id, user_id, start, stop, tid) ==
    [id |-> id, user_id |-> user_id, start |-> start, stop |-> stop,
     appointment_type_id |-> tid]

\* events that book requests leave in the store (among them the requests of
\* BookRequests): bookings of users 7 and 2 on the Monday, in UTC minutes
EventPool ==
    { Ev(1, 7, Monday * DayLen + 1080, Monday * DayLen + 1140, 11),
      Ev(2, 7, Monday * DayLen + 1110, Monday * DayLen + 1170, 0),
      Ev(3, 7, Monday * DayLen + 1140, Monday * DayLen + 1200, 11),
      Ev(4, 7, Monday * DayLen + 1140, Monday * DayLen + 1140, 0),
      Ev(5, 2, Monday * DayLen + 1080, Monday * DayLen + 1140, 0),
      Ev(6, 2, Monday * DayLen + 540, Monday * DayLen + 600, 12),
      Ev(7, 2, Monday * DayLen + 570, Monday * DayLen + 630, 0) }

\* the bodies of the check requests the model sends
CheckRequests ==
    { CheckReq(Date(Monday), 0, "", w, tz, Minutes(d), cal) :
          w \in {"morning", "afternoon", "evening", "any"},
          tz \in {"UTC", "America/New_York"},
          d \in {60, 0, -60},
          cal \in {"", "doc7@clinic"} }
    \cup
    { CheckReq(Date(day), tid, "", w, tz, Minutes(d), "") :
          day \in {Monday, Tuesday},
          tid \in {11, 12},
          w \in {"any", "morning"},
          tz \in {"UTC", "America/New_York"},
          d \in {60, 0} }
    \cup
    { CheckReq(NoDate, 11, "", "any", "UTC", Minutes(60), ""),
      CheckReq(BadDate, 11, "", "any", "UTC", Minutes(60), ""),
      CheckReq(Date(Monday), 0, "Dr Drizzle", "any", "UTC", BadMinutes, ""),
      CheckReq(Date(Monday), 99, "Dr Frost", "afternoon", "Mars/Phobos", Minutes(90), "") }

InitAvail ==
    /\ events \in {evs \in SUBSET EventPool : Cardinality(evs) <= MaxBusy}
    /\ partners = {}
    /\ nextEventId = 8
    /\ nextPartnerId = 1
    /\ book = [p \in Procs |-> IdleBook]
    /\ cancelled = NoCancel
    /\ chk = IdleCheck

NextAvail ==
    \/ \E req \in CheckRequests : CheckBegin(req)
    \/ CheckWhileBody
    \/ CheckWhileExit
    \/ CheckReturn

AvailSpec == InitAvail /\ [][NextAvail]_vars

\* the interpreter keeps running the request it has started
AvailFairSpec == AvailSpec /\ WF_vars(NextAvail)

----------------------------------------------------------------------------
(* The interval calculations: one check request in fixed-duration mode
   against every small set of stored intervals *)

\* the hours 12:00 .. 18:00 of the Monday, around the afternoon window
\* 13:00-17:00, in UTC minutes
GridPoints == {Monday * DayLen + (h * 60) : h \in 12..18}

IntervalId(start, stop) ==
    (((start % DayLen) \div 60) * 100) + ((stop % DayLen) \div 60)

\* events of the default user over the grid, the empty ones (stop = start)
\* included, a second event of the interval 14:00-15:00, and an event of
\* another user over the whole window
IntervalPool ==
    { Ev(IntervalId(i[1], i[2]), STATIC_ASSIGNEE_USER_ID, i[1], i[2], NoType) :
          i \in {x \in GridPoints \X GridPoints : x[1] <= x[2]} }
    \cup { Ev(1, STATIC_ASSIGNEE_USER_ID,
              Monday * DayLen + 840, Monday * DayLen + 900, 12),
           Ev(2, 7, Monday * DayLen + 780, Monday * DayLen + 1020, 11) }

IntervalRequests ==
    { CheckReq(Date(Monday), 0, "", "afternoon", "UTC", Minutes(d), "") :
          d \in {60, 90} }

\* the stores of at most n events of the pool
RECURSIVE StoresUpTo(_)
StoresUpTo(n) ==
    IF n = 0 THEN {{}}
    ELSE LET smaller == StoresUpTo(n - 1)
         IN smaller \cup {evs \cup {e} : evs \in smaller, e \in IntervalPool}

InitInterval ==
    /\ events \in StoresUpTo(MaxIntervals)
    /\ partners = {}
    /\ nextEventId = IntervalId(DayLen - 1, DayLen - 1) + 1
    /\ nextPartnerId = 1
    /\ book = [p \in Procs |-> IdleBook]
    /\ cancelled = NoCancel
    /\ chk = IdleCheck

NextInterval ==
    \/ \E req \in IntervalRequests : CheckBegin(req)
    \/ CheckWhileBody
    \/ CheckWhileExit
    \/ CheckReturn

IntervalSpec == InitInterval /\ [][NextInterval]_vars

----------------------------------------------------------------------------
(* Availability reads interleaved with book and cancel requests *)

\* the response of a check request is sent (lines 459-462): the next check
\* request can arrive
CheckAgain ==
    /\ chk.pc = "done"
    /\ chk' = IdleCheck
    /\ UNCHANGED <<events, partners, nextEventId, nextPartnerId, book, cancelled>>

\* book requests of the interleaving: no selector (default user), a type
\* without staff and an unknown e-mail (default user), a type with staff
MixedBookRequests ==
    { Req(0, "", "", Iso(Monday, 1080, 0), Iso(Monday, 1140, 0), "a@x", ""),
      Req(12, "", "nobody@clinic", Iso(Monday, 540, 0), Iso(Monday, 600, 0), "", ""),
      Req(11, "", "", Iso(Monday, 780, NY), Iso(Monday, 840, NY), "a@x", "") }

\* check requests of the interleaving: fixed-duration mode and template
\* mode for the default user, template mode for the staff of a type, and a
\* request without date
MixedCheckRequests ==
    { CheckReq(Date(Monday), 0, "", "morning", "UTC", Minutes(120), "nobody@clinic"),
      CheckReq(Date(Monday), 12, "", "any", "UTC", Minutes(60), ""),
      CheckReq(Date(Monday), 11, "", "any", "America/New_York", Minutes(60), ""),
      CheckReq(NoDate, 0, "", "any", "UTC", Minutes(60), "") }

\* cancel requests of the interleaving: the first event created
MixedCancelIds == {[kind |-> "int", val |-> 1]}

NextMixed ==
    \/ \E p \in Procs : \E req \in MixedBookRequests : BookCheck(p, req)
    \/ \E p \in Procs : BookCreate(p)
    \/ \E p \in Procs : BookCreateFails(p)
    \/ \E id \in MixedCancelIds : CancelAppointment(id)
    \/ \E req \in MixedCheckRequests : CheckBegin(req)
    \/ CheckWhileBody
    \/ CheckWhileExit
    \/ CheckReturn
    \/ CheckAgain

MixedSpec == Init /\ [][NextMixed]_vars

----------------------------------------------------------------------------
(* A check request, then book requests for the slots it returned *)

\* the body of the book request for slot i of the response: the selector of
\* the check request, slot_start and slot_end as the response wrote them
OfferedReq(i) ==
    Req(chk.req.appointment_type_id, chk.req.appointment_type_name,
        chk.req.calendar_user_email, chk.slots[i].start, chk.slots[i].end,
        "a@x", "")

\* book_appointment up to the conflict search (lines 490-670), for a slot
\* that check_availability has returned
BookOffered(p) ==
    /\ chk.pc = "done" /\ chk.status = "ok"
    /\ \E i \in 1..Len(chk.slots) : BookCheck(p, OfferedReq(i))

\* check requests for 60 minutes on the Monday: fixed-duration mode for the
\* default user and for doc7, template mode for each type from the zone of
\* the type and from other zones, and a type on a day it has no slot for
AgreeCheckRequests ==
    { CheckReq(Date(Monday), 0, "", "evening", "UTC", Minutes(60), cal) :
          cal \in {"", "doc7@clinic"} }
    \cup
    { CheckReq(Date(Monday), 11, "", "any", tz, Minutes(60), "") :
          tz \in {"America/New_York", "UTC", "Asia/Tokyo"} }
    \cup
    { CheckReq(Date(Monday), 12, "", "any", tz, Minutes(60), "") :
          tz \in {"UTC", "America/New_York"} }
    \cup
    { CheckReq(Date(Tuesday), 11, "", "afternoon", "America/New_York", Minutes(60), "") }

NextAgree ==
    \/ \E req \in AgreeCheckRequests : CheckBegin(req)
    \/ CheckWhileBody
    \/ CheckWhileExit
    \/ CheckReturn
    \/ \E p \in Procs : BookOffered(p)
    \/ \E p \in Procs : BookCreate(p)
    \/ \E p \in Procs : BookCreateFails(p)

AgreeSpec == InitAvail /\ [][NextAgree]_vars

----------------------------------------------------------------------------
(* Concurrent cancel requests.  CancelAppointment above is a cancel request
   that runs with no other cancel request between its steps; here a request
   is two steps, the lookup (lines 727-754) and the unlink (lines 756-792),
   and cancelled holds the state of each request. *)

CancelProcs == 1..NCancel

MsgCancelFailed == "Failed to cancel appointment"

\* removed: the events the request has deleted; gone: the event was no
\* longer stored when the request came to delete it (history)
IdleCancel ==
    [pc |-> "idle", req |-> [kind |-> "none", val |-> 0], appointment_id |-> 0,
     status |-> "none", message |-> "", removed |-> {}, gone |-> FALSE]

\* the appointment_id values sent: those of CancelIds, the number 0, and a
\* number that names no event
CancelSpecIds ==
    CancelIds \cup {[kind |-> "int", val |-> 0], [kind |-> "int", val |-> 99]}

\* lines 727-754: the id is read and the event looked up
CancelCheck(c, appointment_id) ==
    /\ cancelled[c].pc = "idle"
    /\ cancelled' = [cancelled EXCEPT ![c] =
           IF appointment_id.kind = "none" \/ appointment_id.val = 0
           THEN [@ EXCEPT !.pc = "done", !.req = appointment_id,
                          !.status = "error", !.message = MsgIdRequired]
           ELSE IF appointment_id.kind = "bad"
           THEN [@ EXCEPT !.pc = "done", !.req = appointment_id,
                          !.status = "error", !.message = MsgIdNotInt]
           ELSE IF ~\E e \in events : e.id = appointment_id.val
           THEN [@ EXCEPT !.pc = "done", !.req = appointment_id,
                          !.appointment_id = appointment_id.val,
                          !.status = "error", !.message = MsgNotFound]
           ELSE [@ EXCEPT !.pc = "unlink", !.req = appointment_id,
                          !.appointment_id = appointment_id.val]]
    /\ UNCHANGED <<events, partners, nextEventId, nextPartnerId, book, chk>>

\* lines 756-786: event.name is read, the event is unlinked and the request
\* returns "cancelled"
CancelUnlinkSilent(c) ==
    /\ cancelled[c].pc = "unlink"
    /\ events' = {e \in events : e.id # cancelled[c].appointment_id}
    /\ cancelled' = [cancelled EXCEPT ![c] =
           [@ EXCEPT !.pc = "done", !.status = "cancelled",
                     !.removed = {e \in events : e.id = cancelled[c].appointment_id}]]
    /\ UNCHANGED <<partners, nextEventId, nextPartnerId, book, chk>>

CancelUnlink(c) ==
    /\ cancelled[c].pc = "unlink"
    /\ \E e \in events : e.id = cancelled[c].appointment_id
    /\ events' = {e \in events : e.id # cancelled[c].appointment_id}
    /\ cancelled' = [cancelled EXCEPT ![c] =
           [@ EXCEPT !.pc = "done", !.status = "cancelled",
                     !.removed = {e \in events : e.id = cancelled[c].appointment_id}]]
    /\ UNCHANGED <<partners, nextEventId, nextPartnerId, book, chk>>

\* lines 756-792: a statement of the try block raises and the request
\* returns the error; reading event.name of an event that another request
\* has unlinked meanwhile raises
CancelUnlinkFails(c) ==
    /\ cancelled[c].pc = "unlink"
    /\ cancelled' = [cancelled EXCEPT ![c] =
           [@ EXCEPT !.pc = "done", !.status = "error", !.message = MsgCancelFailed,
                     !.gone = ~\E e \in events : e.id = cancelled[c].appointment_id]]
    /\ UNCHANGED <<events, partners, nextEventId, nextPartnerId, book, chk>>

InitCancel ==
    /\ events \in {evs \in SUBSET EventPool : Cardinality(evs) <= MaxBusy}
    /\ partners = {}
    /\ nextEventId = 8
    /\ nextPartnerId = 1
    /\ book = [p \in Procs |-> IdleBook]
    /\ cancelled = [c \in CancelProcs |-> IdleCancel]
    /\ chk = IdleCheck

NextCancel ==
    \/ \E c \in CancelProcs : \E id \in CancelSpecIds : CancelCheck(c, id)
    \/ \E c \in CancelProcs : CancelUnlink(c)
    \/ \E c \in CancelProcs : CancelUnlinkFails(c)

CancelSpec == InitCancel /\ [][NextCancel]_vars

----------------------------------------------------------------------------
(* Properties of the booking system *)

Done(p) == book[p].pc = "done"
Confirmed(p) == book[p].resp.status = "confirmed"
Rejected(p, msg) == Done(p) /\ book[p].resp = ErrorResp(msg)
HasSlot(p) == book[p].req.slot_start.kind = "iso" /\ book[p].req.slot_end.kind = "iso"

\* C1: in every reachable state no two stored calendar events of the same
\* user_id overlap ([s1,e1) and [s2,e2) overlap iff s1 < e2 and e1 > s2).
C1_NoOverlapPerUser ==
    \A e1, e2 \in events :
        (e1.id # e2.id /\ e1.user_id = e2.user_id)
            => ~Overlaps(e1.start, e1.stop, e2.start, e2.stop)

\* C2: of the book requests that run concurrently for the same user_id and
\* the same slot, free when each searched the store, exactly one is
\* confirmed and every other one gets the conflict error (requests whose
\* Event.create raised are left aside).
C2_ExactlyOneConcurrentWinner ==
    \A p, q \in Procs :
        (/\ p # q /\ Done(p) /\ Done(q)
         /\ p \in book[q].raced
         /\ HasSlot(p) /\ HasSlot(q)
         /\ book[p].user_id = book[q].user_id
         /\ book[p].start = book[q].start /\ book[p].stop = book[q].stop
         /\ book[p].start < book[p].stop
         /\ ~book[p].busy_seen /\ ~book[q].busy_seen
         /\ book[p].resp.message # MsgCreateFailed
         /\ book[q].resp.message # MsgCreateFailed)
        => \/ (Confirmed(p) /\ Rejected(q, MsgConflict))
           \/ (Confirmed(q) /\ Rejected(p, MsgConflict))

\* C3 as claimed: a book request whose slot overlaps an event stored for the
\* resolved user_id when the request searches the store is rejected with the
\* conflict error and creates no calendar event.
C3_OverlapAlwaysConflictError ==
    \A p \in Procs :
        book[p].busy_seen => (Rejected(p, MsgConflict) /\ book[p].new_event = 0)

\* C3 as amended: such a request is rejected and creates no calendar event;
\* the error is the conflict error, unless an appointment type is resolved
\* and the slot is none of its configured slots for the date, and then it is
\* the 'invalid time slot' error of the earlier validation.
C3_OverlapRejected ==
    \A p \in Procs :
        book[p].busy_seen =>
            /\ book[p].new_event = 0
            /\ ~\E e \in events : e.id = book[p].resp.appointment_id
            /\ LET valid == BookValidSlots(book[p].appt, book[p].req.slot_start)
                   offered == \E i \in 1..Len(valid) :
                                  valid[i] = <<book[p].start, book[p].stop>>
               IN IF book[p].appt # NoType /\ ~offered
                  THEN Rejected(p, MsgInvalidSlot)
                  ELSE Rejected(p, MsgConflict)

\* C3 witness: a request found an overlapping event of its user and got the
\* conflict error
C3_Witness ==
    \E p \in Procs : book[p].busy_seen /\ Rejected(p, MsgConflict) /\ events # {}

\* C4: whenever book_appointment returns an error the request has created
\* no record: no calendar event and no partner.
C4_ErrorLeavesStoreUnchanged ==
    \A p \in Procs :
        (Done(p) /\ book[p].resp.status = "error")
            => (book[p].new_event = 0 /\ book[p].new_partner = 0)

\* C5: when the resolved appointment type has slot templates for the date of
\* the request, the request is committed only if its (start, end) in UTC is
\* exactly one template interval of that date; any other request is rejected
\* with the 'invalid time slot' error and creates no event.
C5_TemplateExactMatch ==
    \A p \in Procs :
        LET valid == BookValidSlots(book[p].appt, book[p].req.slot_start)
            exact == \E i \in 1..Len(valid) :
                         valid[i][1] = book[p].start /\ valid[i][2] = book[p].stop
        IN (book[p].pc # "idle" /\ HasSlot(p) /\ book[p].appt # NoType /\ Len(valid) > 0)
           => /\ (book[p].pc = "create" \/ Confirmed(p)) => exact
              /\ ~exact => (Rejected(p, MsgInvalidSlot) /\ book[p].new_event = 0)

\* C5 witness: a request that matches only the start of a template was
\* rejected, and one that matches a template exactly was confirmed
C5_Witness ==
    \E p, q \in Procs :
        LET valid == BookValidSlots(book[p].appt, book[p].req.slot_start)
        IN /\ book[p].appt # NoType
           /\ \E i \in 1..Len(valid) :
                  valid[i][1] = book[p].start /\ valid[i][2] # book[p].stop
           /\ ~\E i \in 1..Len(valid) : valid[i][2] = book[p].stop
           /\ Rejected(p, MsgInvalidSlot)
           /\ book[q].appt # NoType /\ Confirmed(q)

\* C12: bookings of different users never block each other: a book request
\* gets the conflict error only if an event of its own resolved user
\* overlapped its slot when it searched the store, and two concurrent
\* requests for the same slot on two different users, each free for its
\* own user, are both confirmed whatever the order of their steps (requests
\* whose Event.create raised are left aside).
C12_OtherUsersNeverBlock ==
    /\ \A p \in Procs :
           (book[p].resp.message = MsgConflict) => book[p].busy_seen
    /\ \A p, q \in Procs :
           (/\ p # q /\ Done(p) /\ Done(q)
            /\ p \in book[q].raced
            /\ HasSlot(p) /\ HasSlot(q)
            /\ book[p].user_id # book[q].user_id
            /\ book[p].start = book[q].start /\ book[p].stop = book[q].stop
            /\ ~book[p].busy_seen /\ ~book[q].busy_seen
            /\ book[p].resp.message # MsgCreateFailed
            /\ book[q].resp.message # MsgCreateFailed)
           => (Confirmed(p) /\ Confirmed(q))

\* C12 witness: two requests for the same slot on two different users ran
\* concurrently (the second searched before the first created) and both were
\* confirmed, and both events are stored
C12_Witness ==
    \E p, q \in Procs :
        /\ p \in book[q].raced
        /\ book[p].user_id # book[q].user_id
        /\ book[p].start = book[q].start /\ book[p].stop = book[q].stop
        /\ book[p].start < book[p].stop
        /\ Confirmed(p) /\ Confirmed(q)
        /\ \E e1, e2 \in events :
               e1.id = book[p].new_event /\ e2.id = book[q].new_event

\* C18: the template validation of book_appointment applies in template
\* mode only: a request whose appointment type is resolved but has no
\* configured slot for the requested date, and whose slot is free, is not
\* rejected as an invalid time slot and is confirmed (requests whose
\* Event.create raised are left aside).
C18_NoTemplateNoValidation ==
    \A p \in Procs :
        (/\ Done(p) /\ HasSlot(p) /\ book[p].appt # NoType
         /\ Len(BookValidSlots(book[p].appt, book[p].req.slot_start)) = 0
         /\ book[p].start < book[p].stop
         /\ ~book[p].busy_seen
         /\ book[p].resp.message # MsgCreateFailed)
        => (book[p].resp.message # MsgInvalidSlot /\ Confirmed(p))

\* C19: the conflict check is half-open: a request whose slot starts exactly
\* where an event of the same user ends, or ends exactly where one starts,
\* and overlaps no event of that user, does not get the conflict error and
\* is confirmed (unless the template validation refuses the slot or
\* Event.create raises), so back-to-back bookings succeed in either order.
C19_TouchingIsNoConflict ==
    \A p \in Procs :
        (book[p].adj_seen /\ ~book[p].busy_seen /\ book[p].start < book[p].stop) =>
            /\ book[p].resp.message # MsgConflict
            /\ (Done(p) /\ book[p].resp.message \notin {MsgInvalidSlot, MsgCreateFailed})
                   => Confirmed(p)

\* C19 witness: a request for the hour that ends exactly where a stored
\* event of the same user starts was confirmed, and both events are stored
C19_Witness ==
    \E p, q \in Procs :
        /\ Confirmed(p) /\ Confirmed(q) /\ book[q].adj_seen
        /\ book[p].user_id = book[q].user_id
        /\ book[q].stop = book[p].start
        /\ book[q].start < book[q].stop /\ book[p].start < book[p].stop
        /\ \E e1, e2 \in events :
               /\ e1.id = book[p].new_event /\ e2.id = book[q].new_event
               /\ e1.id < e2.id

\* C19, the other order: a request for the hour that starts exactly where a
\* stored event of the same user ends was confirmed
C19_WitnessAfter ==
    \E p, q \in Procs :
        /\ Confirmed(p) /\ Confirmed(q) /\ book[q].adj_seen
        /\ book[p].user_id = book[q].user_id
        /\ book[q].start = book[p].stop
        /\ book[q].start < book[q].stop /\ book[p].start < book[p].stop
        /\ \E e1, e2 \in events :
               /\ e1.id = book[p].new_event /\ e2.id = book[q].new_event
               /\ e1.id < e2.id

\* C20: every stored calendar event satisfies start < end: a book request
\* whose slot_end is equal to or earlier than its slot_start is rejected and
\* creates no event.
C20_StoredEventsStartBeforeEnd ==
    /\ \A e \in events : e.start < e.stop
    /\ \A p \in Procs :
           (Done(p) /\ HasSlot(p) /\ book[p].stop <= book[p].start)
               => (book[p].resp.status = "error" /\ book[p].new_event = 0)

----------------------------------------------------------------------------
(* Properties of the availability engine *)

\* the docstring of _compute_free_slots: "Return up to 10 slots"
MaxResultSlots == 10

Returned == chk.pc = "done"
ReturnedOk == chk.pc = "done" /\ chk.status = "ok"

\* C6: the slot list that check_availability returns has at most 10 entries
\* (the 10 earliest candidates), in fixed-duration and in template mode.
C6_AtMostTenSlots ==
    ReturnedOk => Len(chk.slots) <= MaxResultSlots

\* C7: the slot list that check_availability returns is in chronological
\* order, its start instants strictly ascending, in both modes and for every
\* stored order of the slot templates.
C7_Chronological ==
    ReturnedOk =>
        \A i \in 1..(Len(chk.slots) - 1) :
            IsoToUtc(chk.slots[i].start) < IsoToUtc(chk.slots[i + 1].start)

\* C8: a check request whose duration_minutes is zero or negative returns an
\* error result and no slots, in both modes.
C8_NonPositiveDurationRejected ==
    (Returned /\ chk.req.duration_minutes.kind = "int"
              /\ chk.req.duration_minutes.val <= 0)
        => (chk.status = "error" /\ chk.slots = << >>)

\* C9: the slot-generation loop over each free interval always reaches its
\* exit condition: from every state of the loop, the condition of
\* `while slot_start + delta <= f_end` is false after some number n of
\* further iterations (a window is shorter than a day, so n <= DayLen).
C9_LoopReachesExit ==
    (chk.pc = "loop" /\ chk.fi <= Len(chk.free)) =>
        \E n \in 0..DayLen :
            ~(chk.slot_start + (n * chk.delta) + chk.delta <= chk.free[chk.fi][2])

\* C9, as liveness under AvailFairSpec: every check request that has started
\* eventually returns a response.
C9_CheckReturns == (chk.pc # "idle") ~> (chk.pc = "done")

\* C10: in template mode a configured slot of the date is in the result if
\* and only if it overlaps no event of the resolved user, and every slot of
\* the result is a whole configured slot.
C10_TemplateIffFree ==
    (Returned /\ chk.mode = "template") =>
        /\ chk.status = "ok"
        /\ \A k \in 1..Len(chk.candidates) :
               (\E i \in 1..Len(chk.slots) :
                    /\ IsoToUtc(chk.slots[i].start) = chk.candidates[k][1]
                    /\ IsoToUtc(chk.slots[i].end) = chk.candidates[k][2])
               <=> ~\E e \in chk.seen :
                       /\ e.user_id \in chk.user_ids
                       /\ Overlaps(chk.candidates[k][1], chk.candidates[k][2],
                                   e.start, e.stop)
        /\ \A i \in 1..Len(chk.slots) :
               \E k \in 1..Len(chk.candidates) :
                   chk.candidates[k] = <<IsoToUtc(chk.slots[i].start),
                                         IsoToUtc(chk.slots[i].end)>>

\* C10 witness: a check in template mode returned one configured slot and
\* left out another that an event of the user covers only in part
C10_Witness ==
    /\ Returned /\ chk.mode = "template"
    /\ Len(chk.slots) = 1 /\ Len(chk.candidates) = 2
    /\ \E k \in 1..2 : \E e \in chk.seen :
           /\ e.user_id \in chk.user_ids
           /\ Overlaps(chk.candidates[k][1], chk.candidates[k][2], e.start, e.stop)
           /\ e.start > chk.candidates[k][1]
           /\ e.start < chk.candidates[k][2]

\* the slots _compute_free_slots returns for a request in template mode,
\* against the events evs (lines 209-223, 242-296)
CheckTemplateResult(req, evs) ==
    LET t == CheckAppointmentType(req)
        off == CallerTzOffset(req.timezone)
        date == [ok |-> req.date_preference.kind = "date",
                 day |-> req.date_preference.day]
        configured == GetConfiguredSlotsFromAppointment(t, date, req.timezone)
        window == SearchWindow(configured, date.day, req.time_window, off)
        merged == Merged(BusyEvents(evs, CheckUserIds(req, t), window[1], window[2]))
    IN TemplateSlots(configured, 1, merged, off)

\* the time_window keywords and the durations a request is compared under
WindowKeywords == {"morning", "afternoon", "evening", "any", ""}
Durations == {Minutes(15), Minutes(60), Minutes(0), Minutes(-60)}

\* C17: one window policy per request.  The mode is template mode exactly
\* when the resolved appointment type has a slot template for the date.  In
\* template mode the result is the same for every time_window keyword and
\* every duration_minutes (it depends on the templates and the busy events
\* only); in fixed-duration mode no template is used: the window is the
\* keyword window, the step is the duration, and the free intervals are
\* those of the keyword window and the busy events of the user.
C17_OneWindowPolicy ==
    (chk.mode # "") =>
        LET t == CheckAppointmentType(chk.req)
            day == chk.req.date_preference.day
            keyword == << LocalToUtc(day * DayLen + WindowHours(chk.req.time_window)[1],
                                     chk.off),
                          LocalToUtc(day * DayLen + WindowHours(chk.req.time_window)[2],
                                     chk.off) >>
        IN /\ (chk.mode = "template") <=>
                  (t # NoType /\ \E i \in 1..Len(SlotIds(t)) : SlotApplies(SlotIds(t)[i], day))
           /\ (chk.mode = "template") =>
                  \A w \in WindowKeywords : \A d \in Durations :
                      chk.slots = CheckTemplateResult(
                                      [chk.req EXCEPT !.time_window = w,
                                                      !.duration_minutes = d], chk.seen)
           /\ (chk.mode = "fixed") =>
                  /\ chk.candidates = << >>
                  /\ chk.window = keyword
                  /\ chk.delta = chk.req.duration_minutes.val
                  /\ chk.free = FreeIntervals(
                                    Merged({e \in chk.seen :
                                               /\ e.user_id \in chk.user_ids
                                               /\ e.start < keyword[2]
                                               /\ e.stop > keyword[1]}),
                                    keyword[1], keyword[2])

\* C17 witness: a request in template mode with the keyword "morning" and a
\* duration of 0 has returned one of two configured slots; the event that
\* takes the other one lies outside the morning window
C17_Witness ==
    /\ chk.pc = "done" /\ chk.mode = "template"
    /\ chk.req.time_window = "morning" /\ chk.req.duration_minutes.val = 0
    /\ Len(chk.candidates) = 2 /\ Len(chk.slots) = 1
    /\ \E e \in chk.seen : \E k \in 1..2 :
           /\ e.user_id \in chk.user_ids
           /\ Overlaps(chk.candidates[k][1], chk.candidates[k][2], e.start, e.stop)
           /\ ~Overlaps(e.start, e.stop,
                        LocalToUtc(chk.req.date_preference.day * DayLen
                                       + WindowHours("morning")[1], chk.off),
                        LocalToUtc(chk.req.date_preference.day * DayLen
                                       + WindowHours("morning")[2], chk.off))

----------------------------------------------------------------------------
(* Properties of availability reads among book and cancel requests *)

\* C11: check_availability leaves the store unchanged: every step of a check
\* request, whatever its input and outcome and whatever book and cancel
\* requests are in flight, leaves the calendar events and the partners as
\* they were (the users are never written by any operation).
C11_CheckLeavesStore ==
    [][(chk' # chk) =>
          /\ events' = events
          /\ partners' = partners
          /\ nextEventId' = nextEventId
          /\ nextPartnerId' = nextPartnerId]_vars

\* C11 witness: a check request has read a store that holds bookings and
\* returned its slots while a book request is between its conflict search
\* and its create, and the bookings it read are still stored
C11_Witness ==
    /\ chk.pc = "done" /\ chk.status = "ok" /\ chk.mode = "fixed"
    /\ chk.busy # << >>
    /\ chk.seen = events
    /\ \E p \in Procs : book[p].pc = "create"

\* no user is known by the e-mail of the request, and no appointment type
\* selected by its id or name has staff
NoUserResolves(req) ==
    /\ UserByEmail(req.calendar_user_email) = 0
    /\ \A t \in AppointmentTypes :
           (t = req.appointment_type_id \/ TypeName(t) = req.appointment_type_name)
               => StaffUserIds(t) = {}

\* C13: when neither calendar_user_email nor the appointment type resolves a
\* user, book_appointment and check_availability do not fail and act on the
\* default user STATIC_ASSIGNEE_USER_ID: the booking is conflict-checked
\* against the events of the default user and stored under it, and the
\* availability is computed from the events of the default user alone.
C13_DefaultUserFallback ==
    /\ \A p \in Procs :
           (book[p].pc # "idle" /\ HasSlot(p) /\ NoUserResolves(book[p].req)) =>
               /\ book[p].user_id = STATIC_ASSIGNEE_USER_ID
               /\ (book[p].resp.message = MsgConflict) => book[p].busy_seen
               /\ Done(p) => \/ Confirmed(p)
                              \/ book[p].resp.message \in
                                     {MsgConflict, MsgInvalidSlot, MsgCreateFailed}
               /\ \A e \in events :
                      e.id = book[p].new_event => e.user_id = STATIC_ASSIGNEE_USER_ID
    /\ (/\ chk.pc # "idle" /\ chk.req.date_preference.kind = "date"
        /\ chk.req.duration_minutes.kind = "int"
        /\ NoUserResolves(chk.req)) =>
           /\ chk.user_ids = {STATIC_ASSIGNEE_USER_ID}
           /\ chk.status # "error"
           /\ \A i \in 1..Len(chk.busy) :
                  \E e \in chk.seen : /\ e.user_id = STATIC_ASSIGNEE_USER_ID
                                       /\ chk.busy[i] = <<e.start, e.stop>>
           /\ \A e \in chk.seen :
                  (/\ e.user_id = STATIC_ASSIGNEE_USER_ID
                   /\ Overlaps(e.start, e.stop, chk.window[1], chk.window[2]))
                  => \E i \in 1..Len(chk.busy) : chk.busy[i] = <<e.start, e.stop>>
           /\ \A i \in 1..Len(chk.slots) : \A e \in chk.seen :
                  e.user_id = STATIC_ASSIGNEE_USER_ID
                  => ~Overlaps(IsoToUtc(chk.slots[i].start), IsoToUtc(chk.slots[i].end),
                               e.start, e.stop)

\* C13 witness: a book request that resolves no user is confirmed and its
\* event is stored under the default user, and a check request that resolves
\* no user has returned slots around that event while the store also holds
\* an event of another user
C13_Witness ==
    /\ \E p \in Procs :
           /\ NoUserResolves(book[p].req) /\ Confirmed(p)
           /\ book[p].req.appointment_type_id # 0
           /\ \E e \in events : /\ e.id = book[p].new_event
                                 /\ e.user_id = STATIC_ASSIGNEE_USER_ID
    /\ chk.pc = "done" /\ chk.status = "ok" /\ NoUserResolves(chk.req)
    /\ chk.req.calendar_user_email # ""
    /\ Len(chk.busy) = 1 /\ Len(chk.slots) > 0
    /\ \E e \in chk.seen : e.user_id # STATIC_ASSIGNEE_USER_ID

----------------------------------------------------------------------------
(* Properties of the interval calculations *)

\* instant t lies in one of the half-open intervals of the sequence
Covers(intervals, t) ==
    \E i \in 1..Len(intervals) : intervals[i][1] <= t /\ t < intervals[i][2]

\* the instants compared: every half hour from 11:00 to 19:00 of the Monday
\* (the stored intervals and the window begin and end on whole hours, so
\* what covers an instant changes at whole hours only)
Instants == {Monday * DayLen + (11 * 60) + (30 * k) : k \in 0..16}

\* C14: the merge of the busy intervals is sorted by start, each of its
\* intervals starts strictly after the previous one ends (no overlap and no
\* adjacency), and it covers exactly the instants the busy intervals cover;
\* no busy interval gives the empty sequence and a single one gives itself.
C14_MergeSortedDisjointSameCover ==
    (chk.mode # "") =>
        /\ \A i \in 1..(Len(chk.merged) - 1) :
               /\ chk.merged[i][1] <= chk.merged[i + 1][1]
               /\ chk.merged[i][2] < chk.merged[i + 1][1]
        /\ \A t \in Instants : Covers(chk.merged, t) <=> Covers(chk.busy, t)
        /\ (chk.busy = << >>) => (chk.merged = << >>)
        /\ (Len(chk.busy) = 1) => (chk.merged = << <<chk.busy[1][1], chk.busy[1][2]>> >>)

\* C14 witness: three busy intervals, two of them adjacent and so merged
\* into one, the third apart from them
C14_Witness ==
    /\ chk.mode # "" /\ Len(chk.busy) = 3 /\ Len(chk.merged) = 2
    /\ \E i \in 1..2 : /\ chk.busy[i][2] = chk.busy[i + 1][1]
                        /\ chk.busy[i][1] < chk.busy[i][2]
                        /\ chk.busy[i + 1][1] < chk.busy[i + 1][2]

\* C15: in fixed-duration mode the free intervals are non-empty, ordered,
\* pairwise disjoint and inside [window start, window end), and an instant
\* of the window lies in a free interval exactly when no event of the
\* resolved user covers it, whatever events the store holds (starting
\* before the window, ending after it, or outside it).
C15_FreeIsComplementInWindow ==
    (chk.mode = "fixed") =>
        /\ \A i \in 1..Len(chk.free) :
               /\ chk.free[i][1] < chk.free[i][2]
               /\ chk.window[1] <= chk.free[i][1]
               /\ chk.free[i][2] <= chk.window[2]
        /\ \A i \in 1..(Len(chk.free) - 1) : chk.free[i][2] <= chk.free[i + 1][1]
        /\ \A t \in {x \in Instants : chk.window[1] <= x /\ x < chk.window[2]} :
               Covers(chk.free, t) <=>
                   ~\E e \in chk.seen : /\ e.user_id \in chk.user_ids
                                         /\ e.start <= t /\ t < e.stop

\* C15 witness: the store holds an event that starts before the window and
\* ends in it, one that starts in the window and ends after it, and one
\* outside the window, and a free interval lies between them
C15_Witness ==
    /\ chk.mode = "fixed" /\ Len(chk.free) = 1
    /\ \E e1, e2, e3 \in chk.seen :
           /\ e1.user_id \in chk.user_ids /\ e2.user_id \in chk.user_ids
           /\ e3.user_id \in chk.user_ids
           /\ e1.start < chk.window[1] /\ e1.stop > chk.window[1]
           /\ e1.stop < chk.window[2]
           /\ e2.start > e1.stop /\ e2.start < chk.window[2]
           /\ e2.stop > chk.window[2]
           /\ e3.start >= chk.window[2] /\ e3.start < e3.stop

\* C16: in fixed-duration mode with a positive duration every slot of the
\* result has end - start = duration, lies inside one free interval and so
\* overlaps no event of the resolved user, and no two slots overlap; the
\* returned slots are all the whole multiples of the duration from the start
\* of each free interval, with no shorter last slot (one busy hour at the
\* start of a window leaves exactly the hourly slots of the rest of it).
C16_FixedSlotsTileFree ==
    (chk.mode = "fixed" /\ chk.delta > 0) =>
        /\ \A i \in 1..Len(chk.slots) :
               LET s == IsoToUtc(chk.slots[i].start)
                   e == IsoToUtc(chk.slots[i].end)
               IN /\ e - s = chk.delta
                  /\ \E k \in 1..Len(chk.free) :
                         chk.free[k][1] <= s /\ e <= chk.free[k][2]
                  /\ \A ev \in chk.seen :
                         ev.user_id \in chk.user_ids
                             => ~Overlaps(s, e, ev.start, ev.stop)
        /\ \A i, j \in 1..Len(chk.slots) :
               i < j => IsoToUtc(chk.slots[i].end) <= IsoToUtc(chk.slots[j].start)
        /\ (chk.pc = "done") =>
               /\ \A k \in 1..Len(chk.free) :
                      \A n \in 0..(DayLen \div chk.delta) :
                          (chk.free[k][1] + ((n + 1) * chk.delta) <= chk.free[k][2])
                          => \E i \in 1..Len(chk.slots) :
                                 IsoToUtc(chk.slots[i].start)
                                     = chk.free[k][1] + (n * chk.delta)
               /\ \A i \in 1..Len(chk.slots) :
                      \E k \in 1..Len(chk.free) :
                          \E n \in 0..(DayLen \div chk.delta) :
                              IsoToUtc(chk.slots[i].start)
                                  = chk.free[k][1] + (n * chk.delta)

\* C16 witness: the first hour of the 13:00-17:00 window is busy and the
\* request for 60 minutes has returned exactly the three hourly slots from
\* 14:00 to 17:00
C16_Witness ==
    /\ chk.pc = "done" /\ chk.mode = "fixed" /\ chk.delta = 60
    /\ chk.busy = << <<chk.window[1], chk.window[1] + 60>> >>
    /\ Len(chk.slots) = 3
    /\ \A i \in 1..3 :
           /\ IsoToUtc(chk.slots[i].start) = chk.window[1] + (i * 60)
           /\ IsoToUtc(chk.slots[i].end) = chk.window[1] + ((i + 1) * 60)
    /\ IsoToUtc(chk.slots[3].end) = chk.window[2]

\* no stored event other than the cancelled one overlaps [start, stop) in the
\* calendar of one of the users
NoOtherEvent(user_ids, start, stop) ==
    ~\E e \in events : /\ e.id # cancelled.appointment_id
                        /\ e.user_id \in user_ids
                        /\ Overlaps(start, stop, e.start, e.stop)

\* C22: cancellation frees the slot.  Once cancel_appointment has succeeded
\* for a booking, its event is out of the store and no longer busy: a check
\* request that starts afterwards does not read it and offers the slot again
\* (as a configured slot in template mode, inside a free interval in
\* fixed-duration mode), and a book request that starts afterwards for the
\* same user and the same slot passes the conflict search and goes on to
\* create its event, provided no other event of that user overlaps the slot.
C22_CancelFreesSlot ==
    [][(cancelled.status = "cancelled") =>
          /\ \A e \in events' : e.id # cancelled.appointment_id
          /\ (chk.pc = "idle" /\ chk'.pc # "idle") =>
                 /\ \A e \in chk'.seen : e.id # cancelled.appointment_id
                 /\ \A p \in Procs :
                        (/\ book[p].new_event = cancelled.appointment_id
                         /\ book[p].user_id \in chk'.user_ids
                         /\ NoOtherEvent(chk'.user_ids, book[p].start, book[p].stop)) =>
                            /\ (/\ chk'.mode = "template"
                                /\ \E k \in 1..Len(chk'.candidates) :
                                       chk'.candidates[k] = <<book[p].start, book[p].stop>>)
                               => \E i \in 1..Len(chk'.slots) :
                                      /\ IsoToUtc(chk'.slots[i].start) = book[p].start
                                      /\ IsoToUtc(chk'.slots[i].end) = book[p].stop
                            /\ (/\ chk'.mode = "fixed"
                                /\ chk'.window[1] <= book[p].start
                                /\ book[p].stop <= chk'.window[2])
                               => \E k \in 1..Len(chk'.free) :
                                      /\ chk'.free[k][1] <= book[p].start
                                      /\ book[p].stop <= chk'.free[k][2]
          /\ \A p, q \in Procs :
                 (/\ book[q].pc = "idle" /\ book'[q].pc # "idle"
                  /\ book[p].new_event = cancelled.appointment_id
                  /\ book'[q].req.slot_start.kind = "iso"
                  /\ book'[q].req.slot_end.kind = "iso"
                  /\ book'[q].user_id = book[p].user_id
                  /\ book'[q].start = book[p].start /\ book'[q].stop = book[p].stop
                  /\ NoOtherEvent({book[p].user_id}, book[p].start, book[p].stop)) =>
                     /\ book'[q].resp.message # MsgConflict
                     /\ (book'[q].resp.message # MsgInvalidSlot) => (book'[q].pc = "create")
      ]_vars

\* C22 witness: a confirmed booking was cancelled, a check request has read
\* the store without it and returned its slot, and a second book request for
\* the same user and slot, which searched the store after the cancel, is
\* confirmed and its event is stored
C22_Witness ==
    /\ cancelled.status = "cancelled"
    /\ chk.pc = "done" /\ chk.mode = "template" /\ chk.seen = {}
    /\ \E p, q \in Procs :
           /\ p # q /\ Confirmed(p) /\ Confirmed(q)
           /\ book[p].new_event = cancelled.appointment_id
           /\ book[q].user_id = book[p].user_id
           /\ book[q].start = book[p].start /\ book[q].stop = book[p].stop
           /\ p \notin book[q].raced /\ ~book[q].busy_seen
           /\ book[p].user_id \in chk.user_ids
           /\ \E e \in events : e.id = book[q].new_event
           /\ \E i \in 1..Len(chk.slots) :
                  /\ IsoToUtc(chk.slots[i].start) = book[p].start
                  /\ IsoToUtc(chk.slots[i].end) = book[p].stop

----------------------------------------------------------------------------
(* Properties of a check request followed by book requests *)

\* C21: check and book agree: when check_availability has returned a slot
\* and the first book request after it (no book or cancel request in
\* between) has the same selector and that slot's start and end, the book
\* request is confirmed, in fixed-duration mode and in template mode and
\* for every caller timezone (requests whose Event.create raised are left
\* aside).
C21_CheckAndBookAgree ==
    \A p \in Procs :
        (/\ Done(p) /\ chk.pc = "done"
         /\ \A q \in Procs : q >= p
         /\ \E i \in 1..Len(chk.slots) : book[p].req = OfferedReq(i)
         /\ book[p].resp.message # MsgCreateFailed)
        => Confirmed(p)

----------------------------------------------------------------------------
(* Properties of concurrent cancel requests *)

\* request c returns its response in this step
CancelReturns(c) == cancelled[c].pc # "done" /\ cancelled'[c].pc = "done"

\* C23: cancel_appointment removes exactly one event or nothing.  A request
\* that returns "cancelled" has deleted the event with the id it was given
\* and nothing else; every other request returns an error and leaves the
\* store unchanged, and so does every request whose id is missing or names
\* no stored event when the request returns (an event already cancelled,
\* also by a concurrent cancel of the same id); no other step changes the
\* store.
C23_CancelRemovesOneOrNothing ==
    [][/\ \A c \in CancelProcs :
             CancelReturns(c) =>
                 /\ IF cancelled'[c].status = "cancelled"
                    THEN \E e \in events :
                             /\ cancelled'[c].req = [kind |-> "int", val |-> e.id]
                             /\ events' = events \ {e}
                    ELSE cancelled'[c].status = "error" /\ events' = events
                 /\ (\/ cancelled'[c].req.kind # "int"
                     \/ ~\E e \in events : e.id = cancelled'[c].req.val)
                        => (cancelled'[c].status = "error" /\ events' = events)
       /\ (\A c \in CancelProcs : ~CancelReturns(c)) => (events' = events)
      ]_vars

\* C23 witness: two cancel requests for the same id both found the event;
\* one has unlinked it and returned "cancelled", the other found it gone
\* and returned an error; the other event of the store is still there
C23_Witness ==
    \E c, d \in CancelProcs :
        /\ c # d
        /\ cancelled[c].pc = "done" /\ cancelled[d].pc = "done"
        /\ cancelled[c].req = cancelled[d].req
        /\ cancelled[c].status = "cancelled" /\ Cardinality(cancelled[c].removed) = 1
        /\ cancelled[d].status = "error" /\ cancelled[d].gone
        /\ Cardinality(events) = 1
        /\ \A e \in events : e.id # cancelled[c].appointment_id

====
